---- MODULE Spec2Model ----
(***************************************************************************)
(* generate_app_icon.py: create_app_icon(size) paints a checkered flag, a  *)
(* pole and a shadow on a square RGB canvas; main() renders the 1024 icon  *)
(* and saves it as a PNG below the script's own directory.                 *)
(*                                                                         *)
(* The canvas is kept as its background plus the ordered list of rectangle *)
(* fills issued on it; GetPixel reads a pixel back as the raster would     *)
(* hold it (the last fill that covers the pixel wins).                     *)
(***************************************************************************)
EXTENDS Integers, Sequences, FiniteSets, TLC

VARIABLES pc, caller, size, img, row, col, fills,
          flag_width, flag_height, square_size, flag_x, flag_y,
          pole_width, pole_height, pole_x, pole_y, shadow_offset,
          icon, exc, fs, out, first

vars == <<pc, caller, size, img, row, col, fills,
          flag_width, flag_height, square_size, flag_x, flag_y,
          pole_width, pole_height, pole_x, pole_y, shadow_offset,
          icon, exc, fs, out, first>>

flagLocals == <<flag_width, flag_height, square_size, flag_x, flag_y>>
poleLocals == <<pole_width, pole_height, pole_x, pole_y, shadow_offset>>
loopLocals == <<row, col, fills>>
mainLocals == <<icon, exc>>
environment == <<fs, out>>

\* Largest size of the contiguous range of sizes explored.
MaxSize == 40

\* The size main() renders, also the default of create_app_icon.
DefaultSize == 1024

\* Sizes a direct call is made with: the range, the spec's edge case 100,
\* 180 (where the double product 180 * 0.35 falls below 63) and the default.
Sizes == (1..MaxSize) \cup {100, 180, DefaultSize}

\* A local name that has not been assigned yet.
Unbound == "unbound"

NoImage == [mode |-> "none"]

-----------------------------------------------------------------------------
(* Colours *)

bg_color == <<33, 150, 243>>
flag_color == <<255, 255, 255>>
pole_color == <<60, 60, 60>>
shadow_fill == <<0, 0, 0, 40>>

-----------------------------------------------------------------------------
(* int(size * c): the double product, truncated *)

RECURSIVE Pow2Below(_)
\* The largest power of two that is <= k (k >= 1).
Pow2Below(k) == IF k < 2 THEN 1 ELSE 2 * Pow2Below(k \div 2)

\* int(size * (num/den)) for the constants 0.5, 0.25, 0.03 and 0.015: 0.5 and
\* 0.25 are exact doubles, and for 0.03 and 0.015 the rounded double product
\* never falls below an integer the exact product reaches, so the truncated
\* product is the exact floor.
int_mul_round(sz, num, den) == (2 * sz * num + den) \div (2 * den)

int_mul(sz, num, den) == (sz * num) \div den

\* int(size * 0.35). The double nearest 0.35 is 0.35 - 0.4 * 2^-54. When
\* size * 0.35 is an integer k (size a multiple of 20) the product lies
\* 0.4 * size * 2^-54 below k and rounds (to nearest, ties to even) back to k
\* only if that is at most half an ulp below k, i.e. size <= 5 * 2^e with
\* 2^e <= k < 2^(e+1); otherwise it rounds to the double below k and int()
\* gives k - 1 (180 * 0.35 = 62.99999999999999).
int_mul_035(sz) ==
  LET k == (sz * 35) \div 100
  IN  IF (sz * 35) % 100 = 0 /\ k >= 1 /\ sz > 5 * Pow2Below(k)
      THEN k - 1
      ELSE k

-----------------------------------------------------------------------------
(* The raster canvas *)

ImageNewFromDisk(mode, dims, color) ==
  [mode |-> mode, size |-> dims,
   background |->
     IF fs[<<"TrackAppX", "Assets.xcassets", "AppIcon.appiconset",
             "icon-1024.png">>].kind = "file"
     THEN <<0, 0, 0>> ELSE color,
   paints |-> <<>>]

\* Image.new('RGB', (size, size), bg_color)
ImageNew(mode, dims, color) ==
  [mode |-> mode, size |-> dims, background |-> color, paints |-> <<>>]

\* The ink an RGB canvas stores for a fill: its three colour bands (a fourth,
\* alpha, component of the fill has no band to go to).
Ink(im, fill) ==
  IF im.mode = "RGB" THEN <<fill[1], fill[2], fill[3]>> ELSE fill

\* draw.rectangle([x1, y1, x2, y2], fill=fill): both corners are painted.
Rectangle(im, box, fill) ==
  [im EXCEPT !.paints = Append(@, [box |-> box, ink |-> Ink(im, fill)])]

\* Pixel (x, y) lies in the rectangle painted for box.
Covers(box, x, y) ==
  /\ box[1] <= x /\ x <= box[3]
  /\ box[2] <= y /\ y <= box[4]

RECURSIVE LastPaint(_, _, _, _)
\* Index of the last of the first i fills that covers (x, y); 0 if none does.
LastPaint(paints, i, x, y) ==
  IF i = 0 THEN 0
  ELSE IF Covers(paints[i].box, x, y) THEN i
  ELSE LastPaint(paints, i - 1, x, y)

\* img.getpixel((x, y))
GetPixel(im, x, y) ==
  LET i == LastPaint(im.paints, Len(im.paints), x, y)
  IN  IF i = 0 THEN im.background ELSE im.paints[i].ink

-----------------------------------------------------------------------------
(* Geometry of create_app_icon *)

SquareSizeCeil(fw) == (fw + 4) \div 5

\* square_size = flag_width // 5
SquareSize(fw) == fw \div 5

FlagXRight(sz, fw) == sz - fw

\* flag_x = (size - flag_width) // 2
FlagX(sz, fw) == (sz - fw) \div 2

CheckeredOdd(r, c) == (r + c) % 2 = 1

\* if (row + col) % 2 == 0
Checkered(r, c) == (r + c) % 2 = 0

\* [x1, y1, x2, y2] of the cell at (r, c)
CellBox(r, c) ==
  LET x1 == flag_x + c * square_size
      y1 == flag_y + r * square_size
      x2 == x1 + square_size
      y2 == y1 + square_size
  IN  <<x1, y1, x2, y2>>

\* [pole_x, pole_y, pole_x + pole_width, pole_y + pole_height]
PoleBox(px, py, pw, ph) == <<px, py, px + pw, py + ph>>

ShadowBoxFullHeight(px, py, pw, ph, so) ==
  <<px + pw, py, px + pw + so, py + ph>>

\* [pole_x + pole_width, pole_y + shadow_offset,
\*  pole_x + pole_width + shadow_offset, pole_y + pole_height]
ShadowBox(px, py, pw, ph, so) ==
  <<px + pw, py + so, px + pw + so, py + ph>>

-----------------------------------------------------------------------------
(* The filesystem main() writes to *)

\* Paths are lists of components below os.path.dirname(__file__).
assets_dir == <<"TrackAppX", "Assets.xcassets">>

output_dir == <<"TrackAppX", "Assets.xcassets", "AppIcon.appiconset">>

output_path == output_dir \o <<"icon-1024.png">>

contents_path == output_dir \o <<"Contents.json">>

Paths == {assets_dir, output_dir, output_path, contents_path}

Absent == [kind |-> "absent"]
Dir(w) == [kind |-> "dir", writable |-> w]
File(w, d) == [kind |-> "file", writable |-> w, data |-> d]

Parent(path) == SubSeq(path, 1, Len(path) - 1)

\* The PNG encoding of a canvas: lossless, so it is the canvas itself.
Encode(im, format) == [format |-> format, image |-> im]

\* An icon file left by an earlier run or put there by hand: some other image.
OldIcon ==
  Encode([mode |-> "RGB", size |-> <<1024, 1024>>,
          background |-> <<255, 255, 255>>, paints |-> <<>>], "PNG")

\* The filesystems a run can start from: the icon set directory missing, or
\* present (writable or not) with or without an earlier icon in it.
FsStates ==
  { [p \in Paths |->
       CASE p = assets_dir -> Dir(TRUE)
         [] p = output_dir -> Absent
         [] OTHER -> Absent] }
  \cup
  { [p \in Paths |->
       CASE p = assets_dir -> Dir(TRUE)
         [] p = output_dir -> Dir(dw)
         [] p = output_path -> old
         [] OTHER -> File(TRUE, "contents")]
    : dw \in BOOLEAN,
      old \in {Absent, File(TRUE, OldIcon), File(FALSE, OldIcon)} }

\* The error of open(path, "w+b"), or "none": the directory must exist; an
\* existing file is opened (and truncated) if the file is writable; a missing
\* one is created if the directory is writable.
OpenError(f, path) ==
  IF f[Parent(path)].kind # "dir" THEN "FileNotFoundError"
  ELSE IF f[path].kind = "file"
       THEN IF f[path].writable THEN "none" ELSE "PermissionError"
       ELSE IF f[Parent(path)].writable THEN "none" ELSE "PermissionError"

WriteFileAndContents(f, path, data) ==
  [f EXCEPT ![path] = File(TRUE, data),
            ![contents_path] = File(TRUE, "contents updated")]

\* The file at path holds data afterwards; nothing else changes.
WriteFile(f, path, data) ==
  [f EXCEPT ![path] =
      IF @.kind = "file" THEN [@ EXCEPT !.data = data] ELSE File(TRUE, data)]

-----------------------------------------------------------------------------
(* Initial states *)

InitLocals ==
  /\ img = NoImage
  /\ row = Unbound /\ col = Unbound /\ fills = <<>>
  /\ flag_width = Unbound /\ flag_height = Unbound /\ square_size = Unbound
  /\ flag_x = Unbound /\ flag_y = Unbound
  /\ pole_width = Unbound /\ pole_height = Unbound
  /\ pole_x = Unbound /\ pole_y = Unbound /\ shadow_offset = Unbound
  /\ icon = NoImage /\ exc = "none"

\* Either the script is run (main), or create_app_icon is called with a size.
Init ==
  /\ InitLocals
  /\ fs \in FsStates
  /\ out = <<>>
  /\ first = NoImage
  /\ \/ caller = "main" /\ pc = "main" /\ size = Unbound
     \/ caller = "direct" /\ pc = "new" /\ size \in Sizes

\* create_app_icon is called with a size from the range, twice over.
InitTwice ==
  /\ InitLocals
  /\ fs \in FsStates
  /\ out = <<>>
  /\ first = NoImage
  /\ caller = "direct" /\ pc = "new" /\ size \in (1..MaxSize) \cup {100, 180}

-----------------------------------------------------------------------------
(* create_app_icon *)

\* img = Image.new('RGB', (size, size), bg_color); draw = ImageDraw.Draw(img)
NewImage ==
  /\ pc = "new"
  /\ img' = ImageNew("RGB", <<size, size>>, bg_color)
  /\ pc' = "calc"
  /\ UNCHANGED <<caller, size, loopLocals, flagLocals, poleLocals,
                 mainLocals, environment, first>>

\* Calculate dimensions, position the flag, enter the loops.
CalcDimensions ==
  /\ pc = "calc"
  /\ flag_width' = int_mul(size, 5, 10)
  /\ flag_height' = int_mul_035(size)
  /\ square_size' = SquareSize(flag_width')
  /\ flag_x' = FlagX(size, flag_width')
  /\ flag_y' = int_mul(size, 25, 100)
  /\ row' = 0 /\ col' = 0
  /\ pc' = "loop"
  /\ UNCHANGED <<caller, size, img, fills, poleLocals, mainLocals,
                 environment, first>>

\* for row in range(3): for col in range(5): the step to the next cell.
NextCell ==
  /\ row' = IF col = 4 THEN row + 1 ELSE row
  /\ col' = IF col = 4 THEN 0 ELSE col + 1
  /\ pc' = IF col = 4 /\ row = 2 THEN "pole" ELSE "loop"

\* One iteration whose cell is painted.
PaintCell ==
  /\ pc = "loop"
  /\ Checkered(row, col)
  /\ img' = Rectangle(img, CellBox(row, col), flag_color)
  /\ fills' = Append(fills, <<row, col>>)
  /\ NextCell
  /\ UNCHANGED <<caller, size, flagLocals, poleLocals, mainLocals,
                 environment, first>>

\* One iteration whose cell is left as it is.
SkipCell ==
  /\ pc = "loop"
  /\ ~Checkered(row, col)
  /\ NextCell
  /\ UNCHANGED <<caller, size, img, fills, flagLocals, poleLocals,
                 mainLocals, environment, first>>

\* Draw flag pole
DrawPole ==
  /\ pc = "pole"
  /\ pole_width' = int_mul(size, 3, 100)
  /\ pole_height' = int_mul(size, 5, 10)
  /\ pole_x' = flag_x - pole_width'
  /\ pole_y' = flag_y
  /\ img' = Rectangle(img,
                      PoleBox(pole_x', pole_y', pole_width', pole_height'),
                      pole_color)
  /\ pc' = "shadow"
  /\ UNCHANGED <<caller, size, loopLocals, flagLocals, shadow_offset,
                 mainLocals, environment, first>>

\* Draw shadow/depth effect
DrawShadow ==
  /\ pc = "shadow"
  /\ shadow_offset' = int_mul(size, 15, 1000)
  /\ img' = Rectangle(img,
                      ShadowBox(pole_x, pole_y, pole_width, pole_height,
                                shadow_offset'),
                      shadow_fill)
  /\ pc' = "return"
  /\ UNCHANGED <<caller, size, loopLocals, flagLocals, pole_width,
                 pole_height, pole_x, pole_y, mainLocals, environment, first>>

\* return img
Return ==
  /\ pc = "return"
  /\ IF caller = "main"
     THEN icon' = img /\ pc' = "save"
     ELSE icon' = icon /\ pc' = "returned"
  /\ UNCHANGED <<caller, size, img, loopLocals, flagLocals, poleLocals,
                 exc, environment, first>>

RenderNext ==
  \/ NewImage
  \/ CalcDimensions
  \/ PaintCell
  \/ SkipCell
  \/ DrawPole
  \/ DrawShadow
  \/ Return

-----------------------------------------------------------------------------
(* main *)

\* print("Generating app icon..."); icon = create_app_icon(1024)
Generate ==
  /\ pc = "main"
  /\ out' = Append(out, "generating")
  /\ size' = DefaultSize
  /\ pc' = "new"
  /\ UNCHANGED <<caller, img, loopLocals, flagLocals, poleLocals,
                 mainLocals, fs, first>>

SaveSwallowingErrors ==
  /\ pc = "save"
  /\ LET err == OpenError(fs, output_path)
     IN  /\ exc' = "none"
         /\ fs' = IF err = "none"
                  THEN WriteFile(fs, output_path, Encode(icon, "PNG"))
                  ELSE fs
         /\ pc' = "saved"
  /\ UNCHANGED <<caller, size, img, loopLocals, flagLocals, poleLocals,
                 icon, out, first>>

\* icon.save(output_path, 'PNG'): the file is opened for writing and the
\* encoded canvas written; an error of the open is raised and not caught.
Save ==
  /\ pc = "save"
  /\ LET err == OpenError(fs, output_path)
     IN  IF err = "none"
         THEN /\ fs' = WriteFile(fs, output_path, Encode(icon, "PNG"))
              /\ exc' = exc
              /\ pc' = "saved"
         ELSE /\ fs' = fs
              /\ exc' = err
              /\ pc' = "raised"
  /\ UNCHANGED <<caller, size, img, loopLocals, flagLocals, poleLocals,
                 icon, out, first>>

\* print(f"App icon saved to: {output_path}")
PrintSaved ==
  /\ pc = "saved"
  /\ out' = Append(out, "saved")
  /\ pc' = "features"
  /\ UNCHANGED <<caller, size, img, loopLocals, flagLocals, poleLocals,
                 mainLocals, fs, first>>

\* The closing prints (icon features, the Contents.json reminder).
PrintFeatures ==
  /\ pc = "features"
  /\ out' = out \o <<"features", "reminder">>
  /\ pc' = "exit"
  /\ UNCHANGED <<caller, size, img, loopLocals, flagLocals, poleLocals,
                 mainLocals, fs, first>>

MainNext ==
  \/ Generate
  \/ Save
  \/ PrintSaved
  \/ PrintFeatures

Next == RenderNext \/ MainNext

Spec == Init /\ [][Next]_vars

-----------------------------------------------------------------------------
(* Two calls of create_app_icon with the same size *)

\* The first call has returned; create_app_icon is called again with the same
\* size, in whatever state the environment is by then.
SecondCall ==
  /\ pc = "returned"
  /\ first = NoImage
  /\ first' = img
  /\ img' = NoImage
  /\ row' = Unbound /\ col' = Unbound /\ fills' = <<>>
  /\ flag_width' = Unbound /\ flag_height' = Unbound
  /\ square_size' = Unbound /\ flag_x' = Unbound /\ flag_y' = Unbound
  /\ pole_width' = Unbound /\ pole_height' = Unbound
  /\ pole_x' = Unbound /\ pole_y' = Unbound /\ shadow_offset' = Unbound
  /\ fs' \in FsStates
  /\ out' \in {<<>>, <<"generating">>}
  /\ pc' = "new"
  /\ UNCHANGED <<caller, size, mainLocals>>

NextTwice == RenderNext \/ SecondCall

SpecTwice == InitTwice /\ [][NextTwice]_vars

-----------------------------------------------------------------------------
(* Properties *)

AfterCalc == {"loop", "pole", "shadow", "return", "returned",
              "save", "saved", "features", "exit", "raised"}
AfterLoop == AfterCalc \ {"loop"}
AfterPole == AfterLoop \ {"pole"}
AfterShadow == AfterPole \ {"shadow"}

Pixels == 0..(size - 1)

\* The fills of the pole and of the shadow, once issued.
PolePaint == img.paints[Len(fills) + 1]
ShadowPaint == img.paints[Len(fills) + 2]

EvenCells == {rc \in (0..2) \X (0..4) : (rc[1] + rc[2]) % 2 = 0}

\* The cells the loops have passed when they stand at (row, col).
Passed == IF pc = "loop"
          THEN {rc \in (0..2) \X (0..4) : rc[1] * 5 + rc[2] < row * 5 + col}
          ELSE (0..2) \X (0..4)

\* C1: a white cell fill is issued for grid cell (row, col) if and only if
\* row is in 0..2, col in 0..4 and row + col is even: at every point of the
\* loops the cells filled are the even-parity cells passed so far, each once,
\* each with the white fill on its own box, and after the loops they are
\* exactly the 8 even-parity cells; no odd-parity cell is ever filled.
C1_CheckerboardCells ==
  pc \in AfterCalc =>
    /\ {fills[i] : i \in 1..Len(fills)} = EvenCells \cap Passed
    /\ Len(fills) = Cardinality(EvenCells \cap Passed)
    /\ pc \in AfterLoop => Len(fills) = 8
    /\ \A i \in 1..Len(fills) :
         /\ img.paints[i].ink = <<255, 255, 255>>
         /\ img.paints[i].box =
              <<flag_x + fills[i][2] * square_size,
                flag_y + fills[i][1] * square_size,
                flag_x + (fills[i][2] + 1) * square_size,
                flag_y + (fills[i][1] + 1) * square_size>>

C1_Witness ==
  /\ pc = "returned" /\ size = 100
  /\ Len(fills) = 8
  /\ fills[8] = <<2, 4>>

\* The nominal regions of the returned canvas.
InFlagBox(x, y) ==
  /\ flag_x <= x /\ x < flag_x + (size * 5) \div 10
  /\ flag_y <= y /\ y < flag_y + (size * 35) \div 100
InPole(x, y) ==
  /\ flag_x - pole_width <= x /\ x < flag_x
  /\ flag_y <= y /\ y < flag_y + (size * 5) \div 10
InShadow(x, y) ==
  /\ flag_x <= x /\ x < flag_x + (size * 15) \div 1000
  /\ flag_y <= y /\ y < flag_y + (size * 5) \div 10

\* C2: in the returned canvas every pixel outside the flag bounding box, the
\* pole (floor(S*0.03) columns left of flag_x, floor(S*0.5) rows from flag_y)
\* and the shadow (floor(S*0.015) columns from the pole's right edge, the
\* pole's rows) has the background colour (33,150,243); stated for the two
\* sizes the claim names, S = 100 and S = 1024.
C2_BackgroundOutsideGeometry ==
  (pc \in {"returned", "save"} /\ size \in {100, 1024}) =>
    \A x \in Pixels : \A y \in Pixels :
      ~(InFlagBox(x, y) \/ InPole(x, y) \/ InShadow(x, y))
        => GetPixel(img, x, y) = <<33, 150, 243>>

\* C3: the pole is strictly left of the flag bounding box and touches it:
\* every pixel the pole fill (60,60,60) paints has x < flag_x and the
\* rightmost column it paints is flag_x - 1; stated for S = 100 and S = 1024.
C3_PoleLeftOfFlag ==
  (pc \in AfterPole /\ size \in {100, 1024}) =>
    /\ PolePaint.ink = <<60, 60, 60>>
    /\ \A x \in Pixels : \A y \in Pixels :
         Covers(PolePaint.box, x, y) => x < flag_x
    /\ PolePaint.box[3] = flag_x - 1

\* C4: for S = 1024 the geometry is flag 512 x 358 at (256, 256), cells of
\* side 102, pole 30 x 512 at (226, 256): each proportional value is S times
\* its constant, truncated, and the cell side is flag_width // 5.
C4_Geometry1024 ==
  (pc \in AfterCalc /\ size = 1024) =>
    /\ pc \in AfterCalc =>
         /\ flag_width = 512 /\ flag_height = 358
         /\ flag_x = 256 /\ flag_y = 256
         /\ square_size = 102
    /\ pc \in AfterPole =>
         /\ pole_width = 30 /\ pole_height = 512
         /\ pole_x = 226 /\ pole_y = 256

C4_Witness ==
  /\ pc = "save" /\ caller = "main" /\ size = 1024
  /\ flag_height = 358 /\ pole_x = 226

InCanvas(box) ==
  /\ \A k \in 1..4 : box[k] \in 0..(size - 1)
  /\ box[1] <= box[3]
  /\ box[2] <= box[4]

\* C5: for every size S >= 20 every derived geometry value is a non-negative
\* integer (at most S), and every corner handed to a rectangle fill (the flag
\* cells, the pole, the shadow) lies in 0..S-1 on both axes with the first
\* corner not beyond the second.
C5_GeometryInBounds ==
  (pc \in AfterCalc /\ size >= 20) =>
    /\ \A v \in {flag_width, flag_height, square_size, flag_x, flag_y} :
         v \in 0..size
    /\ pc \in AfterPole =>
         \A v \in {pole_width, pole_height, pole_x, pole_y} : v \in 0..size
    /\ pc \in AfterShadow => shadow_offset \in 0..size
    /\ \A i \in 1..Len(img.paints) : InCanvas(img.paints[i].box)

C5_Witness ==
  /\ pc = "returned" /\ size = 100
  /\ Len(img.paints) = 10
  /\ img.paints[10].box = <<25, 26, 26, 75>>

\* The path the icon is written to, and its directory.
TargetDir == <<"TrackAppX", "Assets.xcassets", "AppIcon.appiconset">>
TargetPath == <<"TrackAppX", "Assets.xcassets", "AppIcon.appiconset",
                "icon-1024.png">>

IOErrors == {"FileNotFoundError", "PermissionError"}

\* What the claim says of a step taken by the save: it raises, and leaves the
\* filesystem and the console as they were; nothing follows a raised error.
SaveFails ==
  /\ pc' = "raised"
  /\ exc' \in IOErrors
  /\ fs' = fs
  /\ out' = out
  /\ \A i \in 1..Len(out') : out'[i] # "saved"

\* C6 as stated: whenever the target directory does not exist or is not
\* writable, the save fails with an uncaught I/O error, the filesystem stays
\* as it was, nothing is retried and "saved" is never printed.
C6_SaveFailsIfDirUnusable ==
  [][ /\ (pc = "save" /\ (\/ fs[TargetDir].kind # "dir"
                          \/ ~fs[TargetDir].writable)) => SaveFails
      /\ pc = "raised" => UNCHANGED vars ]_vars

\* C6, amended: whenever the target directory does not exist, or is not
\* writable and holds no icon-1024.png yet, the save fails with an uncaught
\* I/O error, the filesystem stays as it was (no directory made, no file
\* written), nothing is retried and "saved" is never printed.
C6_SaveFailsIfCannotCreate ==
  [][ /\ (pc = "save" /\ (\/ fs[TargetDir].kind # "dir"
                          \/ /\ ~fs[TargetDir].writable
                             /\ fs[TargetPath].kind = "absent")) => SaveFails
      /\ pc = "raised" => UNCHANGED vars ]_vars

C6_Witness ==
  /\ pc = "raised" /\ exc = "PermissionError"
  /\ ~fs[TargetDir].writable /\ fs[TargetPath].kind = "absent"
  /\ out = <<"generating">>

\* C7: a successful run changes exactly one filesystem entry: the save puts
\* the PNG of the rendered 1024 x 1024 canvas at
\* TrackAppX/Assets.xcassets/AppIcon.appiconset/icon-1024.png below the
\* script's directory, whatever was there before; no other step changes the
\* filesystem and every other entry stays as it was.
C7_WritesExactlyTheIcon ==
  [][ /\ (pc = "save" /\ pc' = "saved") =>
           /\ fs'[TargetPath].kind = "file"
           /\ fs'[TargetPath].data = [format |-> "PNG", image |-> img]
           /\ img.size = <<1024, 1024>>
           /\ Len(img.paints) = 10
      /\ DOMAIN fs' = DOMAIN fs
      /\ \A p \in DOMAIN fs \ {TargetPath} : fs'[p] = fs[p]
      /\ fs' # fs => (pc = "save" /\ pc' = "saved") ]_vars

C7_Witness ==
  /\ pc = "exit"
  /\ ~fs[TargetDir].writable
  /\ fs[TargetPath].kind = "file"
  /\ fs[TargetPath].data.image.size = <<1024, 1024>>
  /\ fs[TargetDir \o <<"Contents.json">>] = File(TRUE, "contents")

RenderSteps == {"new", "calc", "loop", "pole", "shadow", "return"}

\* A second call returns, pixel for pixel, the canvas of the first.
SameCanvas ==
  (pc = "returned" /\ first # NoImage) =>
    /\ img.size = first.size
    /\ \A x \in Pixels : \A y \in Pixels :
         GetPixel(img, x, y) = GetPixel(first, x, y)

\* No step of create_app_icon changes the filesystem or the console.
RenderFrame == pc \in RenderSteps => UNCHANGED environment

\* C8: create_app_icon is a function of S alone: a second call with the same
\* S, made in any state of the environment, returns a canvas whose colour at
\* every pixel is that of the first, and no step of a call changes the
\* filesystem or the console.
C8_Deterministic == []SameCanvas /\ [][RenderFrame]_vars

C8_Witness ==
  /\ pc = "returned" /\ size = 100
  /\ first # NoImage /\ Len(first.paints) = 10 /\ Len(img.paints) = 10
  /\ fs[TargetDir].kind = "absent"
  /\ out = <<"generating">>

\* C9 as stated: the shadow rectangle starts at the column right of the pole
\* (pole_x + pole_width), is floor(S*0.015) columns wide, and has the pole's
\* vertical extent: top row pole_y, bottom row the pole's bottom row; stated
\* for S = 100 and S = 1024.
C9_ShadowSameExtentAsPole ==
  (pc \in AfterShadow /\ size \in {100, 1024}) =>
    /\ ShadowPaint.box[1] = pole_x + pole_width
    /\ ShadowPaint.box[3] - ShadowPaint.box[1] + 1 = (size * 15) \div 1000
    /\ ShadowPaint.box[2] = PolePaint.box[2]
    /\ ShadowPaint.box[2] = pole_y
    /\ ShadowPaint.box[4] = PolePaint.box[4]

\* C9, amended: the shadow rectangle starts at column pole_x + pole_width,
\* the last column the pole fill paints, spans floor(S*0.015) + 1 columns,
\* starts floor(S*0.015) rows below the pole's top row, and ends on the
\* pole's bottom row pole_y + pole_height.
C9_ShadowOffsetFromPoleTop ==
  pc \in AfterShadow =>
    /\ ShadowPaint.box[1] = pole_x + pole_width
    /\ ShadowPaint.box[1] = PolePaint.box[3]
    /\ ShadowPaint.box[3] - ShadowPaint.box[1] + 1 = (size * 15) \div 1000 + 1
    /\ ShadowPaint.box[2] = PolePaint.box[2] + (size * 15) \div 1000
    /\ ShadowPaint.box[4] = PolePaint.box[4]
    /\ ShadowPaint.box[4] = pole_y + pole_height

C9_Witness ==
  /\ pc = "returned" /\ size = 1024
  /\ PolePaint.box = <<226, 256, 256, 768>>
  /\ ShadowPaint.box = <<256, 271, 271, 768>>

\* The number of pixels two painted boxes have in common.
Span(lo, hi) == IF hi >= lo THEN hi - lo + 1 ELSE 0
Max(a, b) == IF a >= b THEN a ELSE b
Min(a, b) == IF a <= b THEN a ELSE b
Shared(b1, b2) ==
  Span(Max(b1[1], b2[1]), Min(b1[3], b2[3]))
    * Span(Max(b1[2], b2[2]), Min(b1[4], b2[4]))

\* C10 as stated: the 3 x 5 grid of cells of side flag_width // 5 partitions
\* the flag bounding box: 5 * square_size = flag_width and
\* 3 * square_size = flag_height, and distinct cells share no pixel; stated
\* for S = 100 and S = 1024.
C10_GridPartitionsFlagBox ==
  (pc \in AfterLoop /\ size \in {100, 1024}) =>
    /\ 5 * square_size = flag_width
    /\ 3 * square_size = flag_height
    /\ \A i \in 1..Len(fills) : \A j \in 1..Len(fills) :
         i # j => Shared(img.paints[i].box, img.paints[j].box) = 0

\* C10, amended: the grid of cells of side square_size = flag_width // 5,
\* anchored at (flag_x, flag_y), spans no more than the flag bounding box and
\* in general less: 5 * square_size <= flag_width < 5 * square_size + 5 and
\* 3 * square_size <= flag_height; the rectangles painted for two distinct
\* cells share at most one pixel once square_size >= 1 (the corner common to
\* diagonal neighbours), and the first cell's box starts at (flag_x, flag_y).
C10_GridWithinFlagBox ==
  pc \in AfterLoop =>
    /\ 5 * square_size <= flag_width
    /\ flag_width < 5 * square_size + 5
    /\ 3 * square_size <= flag_height
    /\ img.paints[1].box[1] = flag_x /\ img.paints[1].box[2] = flag_y
    /\ square_size >= 1 =>
         \A i \in 1..Len(fills) : \A j \in 1..Len(fills) :
           i # j => Shared(img.paints[i].box, img.paints[j].box) <= 1

C10_Witness ==
  /\ pc = "returned" /\ size = 1024
  /\ flag_width = 512 /\ flag_height = 358 /\ square_size = 102
  /\ Shared(img.paints[1].box, img.paints[4].box) = 1

====
